---- MODULE Spec2Model ----
(***************************************************************************)
(* Model of CircularBufferDelayAudioProcessor (Source/PluginProcessor.cpp, *)
(* Source/PluginProcessor.h): the delay ring buffer `delayBuffer`, the     *)
(* write cursor `writePosition`, and the two host callbacks prepareToPlay  *)
(* and processBlock.                                                       *)
(*                                                                         *)
(* Samples are fixed-point integers.  Sample rates are counted in quarters *)
(* of a Hertz so that sampleRate * 2.0 can have a fractional part.         *)
(* Indices are 0-based as in the C++ source.                               *)
(***************************************************************************)
EXTENDS Integers, Sequences, FiniteSets, TLC

\* ------------------------------------------------------------- bounds
\* Largest sample rate the host announces, in quarters of a Hertz.
MaxRateQ == 6
\* Largest block length the host submits.
MaxBlock == 3
\* Length of the recorded input/output history per channel.
MaxHist == 3

\* ---------------------------------------------------- program constants
\* prepareToPlay: delayBufferSize = sampleRate * 2.0
DelaySeconds == 2
\* processBlock: copyFromWithRamp (..., 0.1f, 0.1f); gains are in tenths.
StartGain == 1
EndGain == 1
GainDen == 10

\* ------------------------------------------------------------- values
\* Input samples the host submits (0.0 and 1.0 in units of 1/GainDen).
Samples == {0, 10}
\* What a read outside the host's block may return: any float.
AnyFloat == {0, 90}
\* What a freshly allocated, uninitialised ring cell may hold.
Uninit == {0, 9}

SampleRates == 1..MaxRateQ
BlockSizes == 0..MaxBlock
\* The block lengths the host announces to prepareToPlay.
BlockHints == 1..MaxBlock
\* isBusesLayoutSupported: mono or stereo, input layout = output layout.
Layouts == {1, 2}

VARIABLES
    delayBuffer,      \* juce::AudioBuffer<float> delayBuffer
    writePosition,    \* int writePosition { 0 }
    numChannels,      \* bus layout: getTotalNumInputChannels() = ...Output...
    buffer,           \* the host's block after the last processBlock
    fault,            \* "none", or the undefined behaviour that ended the run
    lastCall,         \* history: the last callback that ran
    input,            \* history: the host's block on entry to processBlock
    startPosition,    \* history: writePosition on entry to processBlock
    access,           \* history: what the last processBlock read and wrote
    history,          \* history: each channel's recent input and output samples
    freshPosition,    \* the write cursor of a fresh instance given the same
                      \* prepareToPlay and the processBlock calls since
    twin,             \* the ring of a run that differs only in what lies
                      \* outside each channel's own block
    config            \* history: the arguments of the prepareToPlay that ran
                      \* last, if no processBlock ran since

vars == <<delayBuffer, writePosition, numChannels, buffer, fault,
          lastCall, input, startPosition, access, history, freshPosition,
          twin, config>>

\* ------------------------------------------------- juce::AudioBuffer
\* An AudioBuffer: numChannels channels of size samples each.
AudioBuffer(nc, n, d) == [numChannels |-> nc, size |-> n, data |-> d]

EmptyBuffer == AudioBuffer(0, 0, <<>>)

\* All contents a buffer of nc channels by n samples can have over values V.
Contents(nc, n, V) == [0..(nc - 1) -> [0..(n - 1) -> V]]

\* A block of nc channels by n samples that is silent but for the samples in
\* hot, a set of <<channel, index>> places, which hold v.
Block(nc, n, hot, v) ==
    AudioBuffer(nc, n, [c \in 0..(nc - 1) |->
                          [i \in 0..(n - 1) |->
                              IF <<c, i>> \in hot THEN v ELSE 0]])

\* A faulty variant of the cast: it rounds to the nearest integer.
RoundToInt(num, den) == (2 * num + den) \div (2 * den)

\* (int) x for the rational num / den, num >= 0: truncation.
TruncToInt(num, den) == num \div den

\* AudioBuffer::setSize (newNumChannels, newNumSamples) with the default
\* keepExistingContent = false, clearExtraSpace = false: a buffer whose
\* dimensions do not change is left alone; otherwise the storage is
\* reallocated and left uninitialised (garbage is what it then holds).
setSize(buf, newNumChannels, newNumSamples, garbage) ==
    IF newNumSamples # buf.size \/ newNumChannels # buf.numChannels
    THEN AudioBuffer(newNumChannels, newNumSamples, garbage)
    ELSE buf

\* The uninitialised contents setSize can leave behind: one stray value v in
\* every cell, zero included.
Allocations(buf, newNumChannels, newNumSamples) ==
    IF newNumSamples # buf.size \/ newNumChannels # buf.numChannels
    THEN {[c \in 0..(newNumChannels - 1) |->
              [i \in 0..(newNumSamples - 1) |-> v]] : v \in Uninit}
    ELSE {buf.data}

\* A call that is not a processBlock reads and writes no sample.
NoAccess == [reads |-> {}, writes |-> {}, starts |-> <<>>, copies |-> <<>>]

\* No prepareToPlay arguments on record.
NoConfig == [sampleRate |-> 0, samplesPerBlock |-> 0]

\* No sample recorded yet; ok says that the cursor was inside the ring when the
\* recording began and that no block since was longer than the ring.
NoHistory == [in |-> <<>>, out |-> <<>>, ok |-> FALSE]

\* ------------------------------------------------------------- Init
\* The constructor's state, under the bus layout the host negotiated.
Init ==
    /\ delayBuffer = EmptyBuffer
    /\ writePosition = 0
    /\ numChannels \in Layouts
    /\ buffer = EmptyBuffer
    /\ fault = "none"
    /\ lastCall = "construct"
    /\ input = EmptyBuffer
    /\ startPosition = 0
    /\ access = NoAccess
    /\ history = NoHistory
    /\ freshPosition = 0
    /\ twin = <<>>
    /\ config = NoConfig

\* --------------------------------------------------------- prepareToPlay
\* delayBufferSize = sampleRate * 2.0, cast to int; sampleRate counts quarters
\* of a Hertz.
DelayBufferSize(sampleRate) == TruncToInt(sampleRate * DelaySeconds, 4)

prepareToPlay(sampleRate, samplesPerBlock, garbage) ==
    /\ fault = "none"
    /\ delayBuffer' = setSize(delayBuffer, numChannels,
                              DelayBufferSize(sampleRate), garbage)
    /\ lastCall' = "prepareToPlay"
    /\ buffer' = EmptyBuffer
    /\ input' = EmptyBuffer
    /\ startPosition' = writePosition
    /\ access' = NoAccess
    /\ history' = [NoHistory EXCEPT
                      !.ok = writePosition < DelayBufferSize(sampleRate)]
    /\ freshPosition' = 0
    /\ twin' = delayBuffer'.data
    /\ config' = [sampleRate |-> sampleRate,
                  samplesPerBlock |-> samplesPerBlock]
    /\ UNCHANGED <<writePosition, numChannels, fault>>

\* ---------------------------------------------------------- processBlock
totalNumInputChannels == numChannels
totalNumOutputChannels == numChannels

\* The blocks the host submits: numChannels channels of 0..MaxBlock samples,
\* silence or one impulse in one channel.
HostBuffers ==
    UNION {{Block(numChannels, n, {}, 0)} \cup
           {Block(numChannels, n, {<<c, i>>}, v) :
              c \in 0..(numChannels - 1), i \in 0..(n - 1),
              v \in Samples \ {0}} : n \in BlockSizes}

\* A faulty variant of the clearing loop: it starts at channel 0.
ClearFromZero(buf, firstChannel, endChannel) ==
    [buf EXCEPT !.data =
        [c \in DOMAIN buf.data |->
            IF c < endChannel
            THEN [i \in DOMAIN buf.data[c] |-> 0]
            ELSE buf.data[c]]]

\* for (i = totalNumInputChannels; i < totalNumOutputChannels; ++i)
\*     buffer.clear (i, 0, buffer.getNumSamples());
ClearUnusedOutputs(buf, firstChannel, endChannel) ==
    [buf EXCEPT !.data =
        [c \in DOMAIN buf.data |->
            IF c >= firstChannel /\ c < endChannel
            THEN [i \in DOMAIN buf.data[c] |-> 0]
            ELSE buf.data[c]]]

\* A faulty variant of the split: the space to the ring's end is one short.
WritePlanOneShort(delayBufferSize, bufferSize, wp) ==
    IF delayBufferSize > bufferSize + wp
    THEN << [dest |-> wp, src |-> 0, n |-> bufferSize] >>
    ELSE LET numSamplesToEnd == delayBufferSize - wp - 1
             numSamplesAtStart == bufferSize - numSamplesToEnd
         IN  << [dest |-> wp, src |-> 0, n |-> numSamplesToEnd],
                [dest |-> 0, src |-> 0 - numSamplesToEnd,
                 n |-> numSamplesAtStart] >>

\* The copyFromWithRamp calls of one channel, in order: where each starts in
\* the ring (dest), where its source pointer points relative to channelData
\* (src), and how many samples it copies (n).
WritePlan(delayBufferSize, bufferSize, wp) ==
    IF delayBufferSize > bufferSize + wp
    THEN << [dest |-> wp, src |-> 0, n |-> bufferSize] >>
    ELSE LET numSamplesToEnd == delayBufferSize - wp
             numSamplesAtStart == bufferSize - numSamplesToEnd
         IN  << [dest |-> wp, src |-> 0, n |-> numSamplesToEnd],
                [dest |-> 0, src |-> 0 - numSamplesToEnd,
                 n |-> numSamplesAtStart] >>

\* Offsets from channelData that a plan reads, and ring indices it writes. A
\* copy of numSamples <= 0 touches nothing.
PlanReads(plan) ==
    UNION {{plan[k].src + i : i \in 0..(plan[k].n - 1)} : k \in DOMAIN plan}

PlanWrites(plan) ==
    UNION {{plan[k].dest + i : i \in 0..(plan[k].n - 1)} : k \in DOMAIN plan}

\* What the channel loop reads from the host's block and writes to the ring,
\* as <<channel, index>> places, and where each channel's first copy starts.
Access(nIn, delayBufferSize, bufferSize, wp) ==
    LET plan == WritePlan(delayBufferSize, bufferSize, wp)
    IN  [reads  |-> {<<c, o>> : c \in 0..(nIn - 1), o \in PlanReads(plan)},
         writes |-> {<<c, o>> : c \in 0..(nIn - 1), o \in PlanWrites(plan)},
         starts |-> [c \in 0..(nIn - 1) |-> plan[1].dest],
         copies |-> plan]

\* A faulty variant of the gain: every sample is copied at full gain.
FullGain(i, numSamples, startGain, endGain) == GainDen * numSamples

\* The gain copyFromWithRamp applies to sample i of numSamples, times
\* GainDen * numSamples: equal gains are a plain copyFrom with that gain,
\* otherwise the gain moves linearly from startGain towards endGain.
RampGain(i, numSamples, startGain, endGain) ==
    IF startGain = endGain
    THEN startGain * numSamples
    ELSE startGain * numSamples + i * (endGain - startGain)

\* AudioBuffer::copyFromWithRamp on one channel of the ring; source[srcStart]
\* is the sample the source pointer points at.
copyFromWithRamp(chan, destStartSample, source, srcStart, numSamples, startGain, endGain) ==
    IF numSamples > 0
    THEN [i \in DOMAIN chan |->
            IF i >= destStartSample /\ i < destStartSample + numSamples
            THEN (source[srcStart + (i - destStartSample)]
                  * RampGain(i - destStartSample, numSamples, startGain, endGain))
                 \div (GainDen * numSamples)
            ELSE chan[i]]
    ELSE chan

RECURSIVE RunPlan(_, _, _, _)
RunPlan(chan, source, plan, k) ==
    IF k > Len(plan) THEN chan
    ELSE RunPlan(copyFromWithRamp(chan, plan[k].dest, source, plan[k].src,
                                  plan[k].n, StartGain, EndGain),
                 source, plan, k + 1)

\* What channelData[offset] yields: the block's sample inside the block, and
\* whatever the memory around the block holds (mem) outside it.
ChannelData(in, mem, channel) ==
    [off \in (0..(in.size - 1))
             \cup {a[2] : a \in {b \in DOMAIN mem : b[1] = channel}} |->
        IF off \in 0..(in.size - 1) THEN in.data[channel][off]
        ELSE mem[<<channel, off>>]]

\* A faulty variant of the channel loop: it resizes the ring to the block.
ResizingLoop(data, channel, nIn, in, mem, wp) ==
    [c \in DOMAIN data |-> [i \in 0..(in.size - 1) |-> 0]]

\* for (int channel = 0; channel < totalNumInputChannels; ++channel) { ... }
\* writePosition is read, not written, by the loop body.
RECURSIVE ChannelLoop(_, _, _, _, _, _)
ChannelLoop(data, channel, nIn, in, mem, wp) ==
    IF channel >= nIn THEN data
    ELSE ChannelLoop(
            [data EXCEPT ![channel] =
                RunPlan(data[channel], ChannelData(in, mem, channel),
                        WritePlan(Cardinality(DOMAIN data[channel]),
                                  in.size, wp), 1)],
            channel + 1, nIn, in, mem, wp)

\* A faulty variant of the cursor update: it runs once per channel.
AdvancePerChannel(wp, bufferSize, delayBufferSize) ==
    (wp + numChannels * bufferSize) % delayBufferSize

\* writePosition += bufferSize; writePosition %= delayBufferSize;
AdvanceWritePosition(wp, bufferSize, delayBufferSize) ==
    (wp + bufferSize) % delayBufferSize

\* The undefined behaviour a call runs into that no value can stand for: a
\* write to a ring channel that does not exist, a write outside the ring's
\* storage, a remainder by zero.
FaultOf(db, acc) ==
    IF \E a \in acc.writes : a[1] >= db.numChannels THEN "channel"
    ELSE IF \E a \in acc.writes : a[2] < 0 \/ a[2] >= db.size THEN "overrun"
    ELSE IF db.size = 0 THEN "divzero"
    ELSE "none"

\* The places outside the host's block whose contents a call depends on.
OutsideReads(db, in, nIn, wp) ==
    LET acc == Access(nIn, db.size, in.size, wp)
    IN  IF FaultOf(db, acc) = "none"
        THEN {a \in acc.reads : a[2] < 0 \/ a[2] >= in.size}
        ELSE {}

\* What the memory at the places outside the block can hold: one stray value
\* throughout.
Memories(outside) == {[a \in outside |-> v] : v \in AnyFloat}

\* The last MaxHist samples of each channel's stream after block b.
Recent(hist, b, nIn) ==
    [c \in 0..(nIn - 1) |->
        LET old == IF c \in DOMAIN hist THEN hist[c] ELSE <<>>
            all == old \o [i \in 1..b.size |-> b.data[c][i - 1]]
        IN  IF Len(all) <= MaxHist THEN all
            ELSE SubSeq(all, Len(all) - MaxHist + 1, Len(all))]

processBlock(in, mem, mem2) ==
    LET bufferSize == in.size
        delayBufferSize == delayBuffer.size
        acc == Access(totalNumInputChannels, delayBufferSize, bufferSize,
                      writePosition)
        f == FaultOf(delayBuffer, acc)
        out == ClearUnusedOutputs(in, totalNumInputChannels,
                                  totalNumOutputChannels)
    IN  /\ fault = "none"
        /\ fault' = f
        /\ lastCall' = "processBlock"
        /\ input' = in
        /\ startPosition' = writePosition
        /\ access' = acc
        /\ config' = NoConfig
        /\ IF f = "none"
           THEN /\ delayBuffer' =
                     [delayBuffer EXCEPT !.data =
                        ChannelLoop(delayBuffer.data, 0, totalNumInputChannels,
                                    in, mem, writePosition)]
                /\ writePosition' =
                     AdvanceWritePosition(writePosition, bufferSize,
                                          delayBufferSize)
                /\ buffer' = out
                /\ history' = [in  |-> Recent(history.in, in,
                                               totalNumInputChannels),
                               out |-> Recent(history.out, out,
                                              totalNumInputChannels),
                               ok  |-> history.ok
                                       /\ bufferSize <= delayBufferSize]
                /\ freshPosition' =
                     AdvanceWritePosition(freshPosition, bufferSize,
                                          delayBufferSize)
                /\ twin' = ChannelLoop(twin, 0, totalNumInputChannels,
                                       in, mem2, writePosition)
           ELSE UNCHANGED <<delayBuffer, writePosition, buffer, history,
                            freshPosition, twin>>
        /\ UNCHANGED numChannels

Next ==
    \/ \E sampleRate \in SampleRates : \E samplesPerBlock \in BlockHints :
         \E garbage \in Allocations(delayBuffer, numChannels,
                                    DelayBufferSize(sampleRate)) :
            prepareToPlay(sampleRate, samplesPerBlock, garbage)
    \/ \E in \in HostBuffers :
         LET outside == OutsideReads(delayBuffer, in, totalNumInputChannels,
                                     writePosition)
         IN  \E mem \in Memories(outside) :
               \E mem2 \in Memories(outside) :
                  processBlock(in, mem, mem2)

Spec == Init /\ [][Next]_vars
\* ======================================================================
\* Properties
\* ======================================================================
\* The value a ring cell holds after input sample x is written to it with the
\* constant write gain.
Stored(x) == (x * StartGain) \div GainDen

Min(a, b) == IF a < b THEN a ELSE b

Channels == 0..(numChannels - 1)

Processed == lastCall = "processBlock" /\ fault = "none"

\* The last processBlock wrapped: its block did not fit before the ring's end.
Wrapped ==
    /\ Processed
    /\ startPosition < delayBuffer.size
    /\ input.size <= delayBuffer.size
    /\ startPosition + input.size > delayBuffer.size

\* C1: in every state reachable by prepareToPlay and processBlock calls, also
\* after a prepareToPlay that shrinks the ring, 0 <= writePosition < capacity.
C1_CursorInRange ==
    (fault = "none" /\ delayBuffer.size > 0)
        => (0 <= writePosition /\ writePosition < delayBuffer.size)

\* C2: a processBlock with 1 <= blockSize <= capacity writes only ring
\* indices in [0, capacity) and reads only block indices in [0, blockSize).
C2_AccessInBounds ==
    (lastCall = "processBlock" /\ input.size >= 1
                               /\ input.size <= delayBuffer.size)
        => /\ \A a \in access.writes : a[2] >= 0 /\ a[2] < delayBuffer.size
           /\ \A a \in access.reads : a[2] >= 0 /\ a[2] < input.size

\* C3: after a processBlock that wraps, ring cell (writeCursor + i) mod
\* capacity holds input sample i (times the write gain), for every i.
C3_SplitWriteExact ==
    Wrapped =>
        \A c \in Channels : \A i \in 0..(input.size - 1) :
            delayBuffer.data[c][(startPosition + i) % delayBuffer.size]
                = Stored(input.data[c][i])

\* C4: after any sequence of processBlock calls with blocks no longer than
\* the ring, ring cell (writeCursor - j) mod capacity holds the j-th most
\* recent input sample (times the write gain), for j in 1..min(T, capacity).
C4_RingHoldsRecentHistory ==
    (Processed /\ history.ok) =>
        \A c \in Channels :
            \A j \in 1..Min(Len(history.in[c]), delayBuffer.size) :
                delayBuffer.data[c][(writePosition - j) % delayBuffer.size]
                    = Stored(history.in[c][Len(history.in[c]) - j + 1])

\* C5: each processBlock advances the one write cursor once, to (writeCursor
\* + blockSize) mod capacity whatever the channel count, and every channel's
\* block is written starting at the cursor the call began with.
C5_SharedCursorAdvance ==
    Processed =>
        /\ writePosition = (startPosition + input.size) % delayBuffer.size
        /\ \A c \in Channels : access.starts[c] = startPosition

C5_Witness ==
    /\ Wrapped
    /\ numChannels = 2
    /\ input.size = 2
    /\ writePosition # startPosition

\* C6: right after every prepareToPlay the write cursor is 0 and every sample
\* of every ring channel is zero.
C6_ConfigureResets ==
    lastCall = "prepareToPlay" =>
        /\ writePosition = 0
        /\ \A c \in DOMAIN delayBuffer.data :
              \A i \in DOMAIN delayBuffer.data[c] : delayBuffer.data[c][i] = 0

\* C7: after a prepareToPlay the instance behaves as a fresh one given the
\* same prepareToPlay and the same processBlock calls: the same write cursor.
C7_ReconfigureLikeFresh ==
    (fault = "none" /\ lastCall # "construct" /\ delayBuffer.size > 0)
        => writePosition = freshPosition

\* C8: for every delay length d in [0, capacity), an input sample at index k
\* of the stream comes out at index k + d (an impulse there and nowhere else).
C8_ExactOffsetRecall ==
    (Processed /\ history.ok) =>
        \A d \in 0..(delayBuffer.size - 1) : \A c \in Channels :
            \A k \in 1..Len(history.in[c]) :
                k + d <= Len(history.out[c])
                    => history.out[c][k + d] = history.in[c][k]

\* C9: with two or more channels, channel c's ring is the same in every run
\* that agrees on channel c's input, whatever the other channels hold.
C9_ChannelIndependence ==
    (fault = "none" /\ numChannels >= 2 /\ history.ok)
        => twin = delayBuffer.data

\* C10: the output block of every processBlock equals its input block sample
\* for sample (the pass-through that delay 0, wet 1, dry 0 asks for).
C10_IdentityOutput ==
    Processed =>
        /\ buffer.size = input.size
        /\ \A c \in Channels : \A i \in 0..(input.size - 1) :
              buffer.data[c][i] = input.data[c][i]

C10_Witness ==
    /\ Processed
    /\ numChannels = 2
    /\ input.size = 3
    /\ input.data[1][2] # 0
    /\ buffer.data[1][2] = input.data[1][2]

\* The capacity the sample rate of a prepareToPlay asks for is zero, or less
\* than the block length announced with it.
InvalidConfig(cfg) ==
    \/ (cfg.sampleRate * DelaySeconds) \div 4 = 0
    \/ (cfg.sampleRate * DelaySeconds) \div 4 < cfg.samplesPerBlock

\* C11: a prepareToPlay with an invalid configuration (capacity 0, or less
\* than the announced block length) is refused and leaves capacity, ring
\* contents and write cursor as they were.
C11_InvalidConfigRejected ==
    [][(lastCall' = "prepareToPlay" /\ InvalidConfig(config'))
          => (delayBuffer' = delayBuffer /\ writePosition' = writePosition)]_vars

\* The ring indices channel c was written at by the last processBlock.
WrittenAt(c) == {a[2] : a \in {b \in access.writes : b[1] = c}}

\* C12: whenever writeCursor + blockSize <= capacity, equality included, the
\* write is one contiguous copy into [writeCursor, writeCursor + blockSize)
\* and no second, wrapped copy moves a sample.
C12_ContiguousWrite ==
    (Processed /\ startPosition + input.size <= delayBuffer.size) =>
        /\ \A c \in Channels :
              WrittenAt(c) = startPosition..(startPosition + input.size - 1)
        /\ \A k \in DOMAIN access.copies :
              access.copies[k].n > 0 =>
                 /\ k = 1
                 /\ access.copies[k].dest = startPosition
                 /\ access.copies[k].src = 0
                 /\ access.copies[k].n = input.size

\* The boundary case: the block ends exactly at the ring's end.
C12_Witness ==
    /\ Processed
    /\ startPosition > 0
    /\ input.size >= 1
    /\ startPosition + input.size = delayBuffer.size

\* C13: no processBlock changes the ring's capacity or its channel count.
C13_ProcessKeepsDimensions ==
    [][lastCall' = "processBlock" =>
          /\ delayBuffer'.size = delayBuffer.size
          /\ delayBuffer'.numChannels = delayBuffer.numChannels
          /\ DOMAIN delayBuffer'.data = DOMAIN delayBuffer.data
          /\ \A c \in DOMAIN delayBuffer.data :
                DOMAIN delayBuffer'.data[c] = DOMAIN delayBuffer.data[c]]_vars

C13_Witness ==
    /\ Processed
    /\ delayBuffer.size = 3
    /\ delayBuffer.numChannels = 2
    /\ input.size = 2
    /\ DOMAIN delayBuffer.data[1] = 0..2

ValidWrite ==
    /\ Processed
    /\ startPosition < delayBuffer.size
    /\ input.size <= delayBuffer.size

\* C15, as stated: each write into the ring is a fade-applied copy, with the
\* samples outside the short ramps at the copy's boundaries stored at full
\* gain (a ramp of 0.1 of a block covers less than one sample here).
C15_RampedWrite ==
    ValidWrite =>
        \A c \in Channels : \A k \in DOMAIN access.copies :
            \A i \in 1..(access.copies[k].n - 2) :
                (access.copies[k].src + i) \in 0..(input.size - 1) =>
                    delayBuffer.data[c][access.copies[k].dest + i]
                        = input.data[c][access.copies[k].src + i]

\* C15, amended: each write into the ring is a constant-gain copy: every
\* sample taken from the host's block is stored times 0.1, in the contiguous
\* and in the split write.
C15_ConstantGainWrite ==
    ValidWrite =>
        \A c \in Channels : \A k \in DOMAIN access.copies :
            \A i \in 0..(access.copies[k].n - 1) :
                (access.copies[k].src + i) \in 0..(input.size - 1) =>
                    delayBuffer.data[c][access.copies[k].dest + i]
                        = Stored(input.data[c][access.copies[k].src + i])

\* A split write that stored an impulse at a tenth of its height.
C15_Witness ==
    /\ Wrapped
    /\ \E c \in Channels :
          /\ input.data[c][0] = 10
          /\ delayBuffer.data[c][startPosition] = 1

\* C16: a processBlock of B <= capacity samples at cursor w changes, in each
\* input channel's ring, only the cells (w + i) mod capacity, i in 0..B-1;
\* every other ring cell and the host's input blocks stay as they were.
C16_ProcessFrame ==
    [][(lastCall' = "processBlock" /\ fault' = "none"
            /\ input'.size <= delayBuffer.size)
          => /\ \A c \in DOMAIN delayBuffer.data :
                  \A i \in DOMAIN delayBuffer.data[c] :
                     (c >= numChannels
                        \/ i \notin {(writePosition + k) % delayBuffer.size :
                                        k \in 0..(input'.size - 1)})
                     => delayBuffer'.data[c][i] = delayBuffer.data[c][i]
             /\ \A c \in Channels : buffer'.data[c] = input'.data[c]]_vars

\* C17: the cursor wrap writePosition %= delayBufferSize never runs with
\* delayBufferSize = 0: the capacity is positive whenever processBlock runs.
C17_PositiveCapacityInProcess ==
    lastCall = "processBlock" => delayBuffer.size > 0
====
